---- MODULE Spec2Model ----
(***************************************************************************)
(* Model of the MT post-editing tool (src/src/app.py and its older variant *)
(* src/app.py), of its evaluation page (src/pages/3_Evaluation.py) and of  *)
(* the aggregation done by the manager dashboard (src/0_Manager.py).       *)
(*                                                                         *)
(* Texts are sequences of one-character strings, so that str.split(),      *)
(* str.strip() and the word-level diff are computed, not assumed.          *)
(* Times are integers in milliseconds.                                     *)
(***************************************************************************)
EXTENDS Integers, Sequences, FiniteSets, TLC

VARIABLES
    uploaded_file,    \* the file in the st.file_uploader widget, or None
    loads,            \* calls of load_segments made for that file
    segments,         \* st.session_state.segments: sequence of texts
    current_segment,  \* st.session_state.current_segment
    edit_metrics,     \* st.session_state.edit_metrics: sequence of EditMetrics
    start_time,       \* st.session_state.start_time: None or <<t>>
    variant,          \* which of the two app.py files is running
    shown,            \* <<i>> when the editor on screen shows segment i, or None
    edit_area,        \* text of the edit area on screen (key "edit_area")
    exception,        \* the exception the last run of main() ended with
    clock,            \* time.time(), in milliseconds
    results,          \* what display_results() rendered in the last page run
    lastEvent,        \* the last user event and whether the page accepted it
    transitions,      \* number of advance/retreat/jump transitions performed
    user_progress,    \* the document store: metrics of the user, or None
    reference_upload, \* the evaluation page's uploaded reference file, or None
    evalView,         \* what the evaluation page showed in its last run
    scorerCalls,      \* arguments of every call of calculate_metrics
    dOriginal,        \* input pair and output of calculate_edit_distance,
    dEdited,          \*   used by DiffSpec only
    dCounts,
    dHtml             \* html_parts of highlight_differences for the same pair

vars == <<variant, uploaded_file, loads, segments, current_segment, edit_metrics, start_time, shown,
          edit_area, exception, clock, results, lastEvent, transitions,
          user_progress, reference_upload, evalView, scorerCalls, dOriginal,
          dEdited, dCounts, dHtml>>

uploadVars == <<uploaded_file, loads>>

navVars == <<variant, uploadVars, segments, current_segment, edit_metrics, start_time,
             shown, edit_area, exception, clock, results, lastEvent,
             transitions>>
evalVars == <<user_progress, reference_upload, evalView, scorerCalls>>
diffVars == <<dOriginal, dEdited, dCounts, dHtml>>

\* Python's None, for the nullable fields.
None == <<>>

(***************************************************************************)
(* Bounds                                                                  *)
(***************************************************************************)
\* longest text (in characters) given to calculate_edit_distance in DiffSpec
MaxLen == 5
\* no user event happens once the clock would pass this many seconds
MaxSeconds == 8
\* no transition is recorded beyond this many records
MaxRecords == 3
\* load_segments is followed for at most this many calls for one upload
MaxLoads == 3

(***************************************************************************)
(* Strings                                                                 *)
(***************************************************************************)
IsSpace(c) == c \in {" ", "\n", "\t"}

Range(f) == {f[x] : x \in DOMAIN f}

Max(a, b) == IF a >= b THEN a ELSE b
Min(a, b) == IF a <= b THEN a ELSE b

\* Python slice s[lo:hi] with 0-based half-open bounds.
Slice(s, lo, hi) == [k \in 1..Max(hi - lo, 0) |-> s[lo + k]]

RECURSIVE SplitFrom(_, _, _)
SplitFrom(s, i, cur) ==
    IF i > Len(s)
    THEN IF cur = <<>> THEN <<>> ELSE <<cur>>
    ELSE IF IsSpace(s[i])
         THEN (IF cur = <<>> THEN <<>> ELSE <<cur>>) \o SplitFrom(s, i + 1, <<>>)
         ELSE SplitFrom(s, i + 1, Append(cur, s[i]))

\* str.split(): the whitespace-separated tokens, no empty token.
Split(s) == SplitFrom(s, 1, <<>>)

RECURSIVE SplitLinesFrom(_, _, _)
SplitLinesFrom(s, i, cur) ==
    IF i > Len(s)
    THEN <<cur>>
    ELSE IF s[i] = "\n"
         THEN <<cur>> \o SplitLinesFrom(s, i + 1, <<>>)
         ELSE SplitLinesFrom(s, i + 1, Append(cur, s[i]))

\* str.split('\n'): the lines, empty ones included.
SplitLines(s) == SplitLinesFrom(s, 1, <<>>)

\* str.strip(): without leading and trailing whitespace.
Strip(s) ==
    LET keep == {i \in 1..Len(s) : ~IsSpace(s[i])}
    IN  IF keep = {} THEN <<>>
        ELSE LET lo == CHOOSE i \in keep : \A j \in keep : i <= j
                 hi == CHOOSE i \in keep : \A j \in keep : i >= j
             IN  Slice(s, lo - 1, hi)

\* [line.strip() for line in content.split('\n') if line.strip()]
StrippedLines(content) ==
    LET lines == SplitLines(content)
    IN  SelectSeq([k \in 1..Len(lines) |-> Strip(lines[k])], LAMBDA l : l # <<>>)

(***************************************************************************)
(* difflib.SequenceMatcher and difflib.Differ over token sequences         *)
(* (no junk; the autojunk heuristic needs 200 tokens and is out of bounds) *)
(***************************************************************************)
\* The blocks a[i:i+k] = b[j:j+k], k >= 1, inside a[alo:ahi] and b[blo:bhi].
Blocks(a, b, alo, ahi, blo, bhi) ==
    {m \in (alo..(ahi - 1)) \X (blo..(bhi - 1)) \X (1..Min(ahi - alo, bhi - blo)) :
        /\ m[1] + m[3] <= ahi
        /\ m[2] + m[3] <= bhi
        /\ \A d \in 0..(m[3] - 1) : a[m[1] + d + 1] = b[m[2] + d + 1]}

\* SequenceMatcher.find_longest_match: the longest block; of those the one
\* starting earliest in a; of those the one starting earliest in b.
find_longest_match(a, b, alo, ahi, blo, bhi) ==
    LET bs == Blocks(a, b, alo, ahi, blo, bhi)
    IN  IF bs = {} THEN <<alo, blo, 0>>
        ELSE CHOOSE m \in bs :
                \A o \in bs :
                    \/ m[3] > o[3]
                    \/ m[3] = o[3] /\ m[1] < o[1]
                    \/ m[3] = o[3] /\ m[1] = o[1] /\ m[2] <= o[2]

\* Diff lines are records [tag, tok]; tag is "+", "-" or " " (the first
\* character of a Differ line).  The "? " hint lines of Differ are left out:
\* no consumer counts or renders them.
Dump(tag, x, lo, hi) == [k \in 1..Max(hi - lo, 0) |-> [tag |-> tag, tok |-> x[lo + k]]]

\* Differ._plain_replace: the shorter block first.
plain_replace(a, b, alo, ahi, blo, bhi) ==
    IF bhi - blo < ahi - alo
    THEN Dump("+", b, blo, bhi) \o Dump("-", a, alo, ahi)
    ELSE Dump("-", a, alo, ahi) \o Dump("+", b, blo, bhi)

\* SequenceMatcher.get_matching_blocks and get_opcodes, then Differ.compare's
\* dump of each opcode, for a[alo:ahi] against b[blo:bhi].
RECURSIVE compare_range(_, _, _, _, _, _)
compare_range(a, b, alo, ahi, blo, bhi) ==
    LET m == find_longest_match(a, b, alo, ahi, blo, bhi)
        i == m[1]
        j == m[2]
        k == m[3]
    IN  IF k = 0
        THEN IF alo < ahi /\ blo < bhi THEN plain_replace(a, b, alo, ahi, blo, bhi)
             ELSE IF alo < ahi THEN Dump("-", a, alo, ahi)
             ELSE Dump("+", b, blo, bhi)
        ELSE compare_range(a, b, alo, i, blo, j)
             \o Dump(" ", a, i, i + k)
             \o compare_range(a, b, i + k, ahi, j + k, bhi)

\* Faulty variant of compare: no alignment, every token of a deleted and
\* every token of b inserted.
compare_unaligned(a, b) == Dump("-", a, 0, Len(a)) \o Dump("+", b, 0, Len(b))

\* list(difflib.Differ().compare(a, b))
compare(a, b) == compare_range(a, b, 0, Len(a), 0, Len(b))

CountTag(diff, tag) == Cardinality({k \in 1..Len(diff) : diff[k].tag = tag})

\* Faulty variant of calculate_edit_distance: the two counts exchanged.
calculate_edit_distance_swapped(original, edited) ==
    LET diff == compare(Split(original), Split(edited))
    IN  [insertions |-> CountTag(diff, "-"), deletions |-> CountTag(diff, "+")]

calculate_edit_distance(original, edited) ==
    LET diff == compare(Split(original), Split(edited))
    IN  [insertions |-> CountTag(diff, "+"), deletions |-> CountTag(diff, "-")]

\* the background colours of removed and of added tokens
Removed == "#ffcdd2"
Added == "#c8e6c9"
Unstyled == ""

\* one <span> of the rendering: its background colour and its token
Span(style, token) == [style |-> style, token |-> token]

\* Faulty variant of highlight_differences: the two colours exchanged.
highlight_differences_swapped(original, edited) ==
    LET diff == compare(Split(original), Split(edited))
        html_part(word) ==
            IF word.tag = " " THEN <<Span(Unstyled, word.tok)>>
            ELSE IF word.tag = "-" THEN <<Span(Added, word.tok)>>
            ELSE IF word.tag = "+" THEN <<Span(Removed, word.tok)>>
            ELSE <<>>
        parts[k \in 0..Len(diff)] ==
            IF k = 0 THEN <<>> ELSE parts[k - 1] \o html_part(diff[k])
    IN  parts[Len(diff)]

\* html_parts of highlight_differences: one <span> per diff line that
\* starts with "  ", "- " or "+ ", in the order of the diff
highlight_differences(original, edited) ==
    LET diff == compare(Split(original), Split(edited))
        html_part(word) ==
            IF word.tag = " " THEN <<Span(Unstyled, word.tok)>>
            ELSE IF word.tag = "-" THEN <<Span(Removed, word.tok)>>
            ELSE IF word.tag = "+" THEN <<Span(Added, word.tok)>>
            ELSE <<>>
        parts[k \in 0..Len(diff)] ==
            IF k = 0 THEN <<>> ELSE parts[k - 1] \o html_part(diff[k])
    IN  parts[Len(diff)]

(***************************************************************************)
(* Inputs of the sessions: uploaded files, typed texts, elapsed times      *)
(***************************************************************************)
\* "The cat sat.\nIt was sunny.\n"
ScenarioFile == <<"T", "h", "e", " ", "c", "a", "t", " ", "s", "a", "t", ".",
    "\n", "I", "t", " ", "w", "a", "s", " ", "s", "u", "n", "n", "y", ".",
    "\n">>

\* " a b\n\nb a \n": two segments, to be stripped, and a blank line
SmallFile == <<" ", "a", " ", "b", "\n", "\n", "b", " ", "a", " ", "\n">>

\* "\n \n": no segment at all
BlankFile == <<"\n", " ", "\n">>

\* "The cat sat."
TheCatSat == <<"T", "h", "e", " ", "c", "a", "t", " ", "s", "a", "t", ".">>

\* "It was sunny."
ItWasSunny == <<"I", "t", " ", "w", "a", "s", " ", "s", "u", "n", "n", "y",
    ".">>

\* "The cat sat on the mat."
TheCatSatOnTheMat == <<"T", "h", "e", " ", "c", "a", "t", " ", "s", "a", "t",
    " ", "o", "n", " ", "t", "h", "e", " ", "m", "a", "t", ".">>

\* "b a"
BA == <<"b", " ", "a">>

\* "ref 0\nref 1\n": two reference translations
TwoReferences == <<"r", "e", "f", " ", "0", "\n", "r", "e", "f", " ", "1",
    "\n">>

\* "ref 0\n\nref 1\nref 2": three reference translations
ThreeReferences == <<"r", "e", "f", " ", "0", "\n", "\n", "r", "e", "f", " ",
    "1", "\n", "r", "e", "f", " ", "2">>

\* "ref 0": one reference translation
OneReference == <<"r", "e", "f", " ", "0">>

\* the files the operator may upload
CorpusFiles == {ScenarioFile, SmallFile, BlankFile}
\* the texts the operator may type into the edit area
EditTexts == {TheCatSatOnTheMat, BA}
\* the time that may pass before a user event, in milliseconds
Durations == {1234, 2000, 3000}
\* the reference files the manager may upload on the evaluation page
ReferenceFiles == {OneReference, TwoReferences, ThreeReferences}

\* the two variants of the page
Tool == "src/src/app.py"
Root == "src/app.py"

(***************************************************************************)
(* display_results(): the summary, the table and the two exports           *)
(***************************************************************************)
RECURSIVE SumField(_, _)
SumField(rows, f) ==
    IF rows = <<>> THEN 0 ELSE rows[1][f] + SumField(Tail(rows), f)

\* The columns of the table, in order: the fields of EditMetrics, from which
\* src/src/app.py drops segment_id (df.drop(columns=["segment_id"])).
DataFrameColumns ==
    IF variant = Tool
    THEN <<"original", "edited", "edit_time", "insertions", "deletions">>
    ELSE <<"segment_id", "original", "edited", "edit_time", "insertions",
           "deletions">>

\* pd.DataFrame([vars(m) ...]) without the dropped column
DataFrame(metrics) ==
    [k \in 1..Len(metrics) |-> [c \in Range(DataFrameColumns) |-> metrics[k][c]]]

\* df.to_csv(index=False): the header line, then one line per row
to_csv(df) ==
    <<DataFrameColumns>>
    \o [k \in 1..Len(df) |->
          [c \in 1..Len(DataFrameColumns) |-> df[k][DataFrameColumns[c]]]]

\* a number of milliseconds as f"{seconds:.1f}": tenths of a second
FormatTenths(num, den) == (2 * num + 100 * den) \div (200 * den)

\* round(seconds, 2), in milliseconds
Round2(ms) == ((ms + 5) \div 10) * 10

\* Faulty variant of JsonObject: the edit time rounded to whole seconds.
JsonObjectWholeSeconds(metric) ==
    << <<"segment_id", metric.segment_id>>,
       <<"source", metric.original>>,
       <<"post_edited", metric.edited>>,
       <<"edit_time_seconds", ((metric.edit_time + 500) \div 1000) * 1000>>,
       <<"insertions", metric.insertions>>,
       <<"deletions", metric.deletions>> >>

\* one object of the JSON export: its keys with their values, in order
JsonObject(metric) ==
    << <<"segment_id", metric.segment_id>>,
       <<"source", metric.original>>,
       <<"post_edited", metric.edited>>,
       <<"edit_time_seconds", Round2(metric.edit_time)>>,
       <<"insertions", metric.insertions>>,
       <<"deletions", metric.deletions>> >>

\* Faulty variant of TotalSegments: the number of distinct segments.
TotalSegmentsUnique(df) == Cardinality({df[k].original : k \in 1..Len(df)})

\* st.metric("Total Segments", len(df))
TotalSegments(df) == Len(df)

display_results(metrics) ==
    LET df == DataFrame(metrics)
    IN  [total_segments |-> TotalSegments(df),
         total_time |-> SumField(df, "edit_time"),
         total_time_shown |-> FormatTenths(SumField(df, "edit_time"), 1),
         average_time_shown |->
             IF Len(df) = 0 THEN None
             ELSE <<FormatTenths(SumField(df, "edit_time"), Len(df))>>,
         total_insertions |-> SumField(df, "insertions"),
         total_deletions |-> SumField(df, "deletions"),
         table |-> df,
         csv |-> to_csv(df),
         json |-> [k \in 1..Len(metrics) |-> JsonObject(metrics[k])]]

(***************************************************************************)
(* The post-editing page: main() of src/src/app.py and of src/app.py       *)
(***************************************************************************)
load_segments(content) == StrippedLines(content)

\* src/src/app.py: "Check if editing is complete"
EditingComplete(segs, cs) == cs >= Len(segs)

\* st.selectbox(options=range(N), index=cs) raises for an index that is no
\* option
SelectboxFails(segs, cs) == cs < 0 \/ cs >= Len(segs)

\* Faulty variant of PreviousDisabled: the button is never disabled.
PreviousNeverDisabled(cs) == FALSE

\* disabled= of the Previous button on a page that shows segment cs
PreviousDisabled(cs) == cs = 0

EditMetrics(segment_id, original, edited, edit_time, counts) ==
    [segment_id |-> segment_id, original |-> original, edited |-> edited,
     edit_time |-> edit_time, insertions |-> counts.insertions,
     deletions |-> counts.deletions]

\* Faulty variant of save_metrics: the record replaces the earlier record
\* of the same segment, if there is one.
save_metrics_upsert(em, cs, st, original, edited, now) ==
    LET record == EditMetrics(cs, original, edited, now - st[1],
                              calculate_edit_distance(original, edited))
    IN  IF st = None
        THEN em
        ELSE IF \E k \in 1..Len(em) : em[k].segment_id = cs
        THEN [k \in 1..Len(em) |->
                 IF em[k].segment_id = cs THEN record ELSE em[k]]
        ELSE Append(em, record)

\* Faulty variant of save_metrics: the record is made after current_segment
\* has moved on, and carries the index of the next segment.
save_metrics_after_move(em, cs, st, original, edited, now) ==
    IF st = None
    THEN em
    ELSE Append(em, EditMetrics(cs + 1, original, edited, now - st[1],
                                calculate_edit_distance(original, edited)))

\* save_metrics at time now, with current_segment = cs, start_time = st and
\* the metrics em: the metrics afterwards
save_metrics(em, cs, st, original, edited, now) ==
    IF st = None
    THEN em
    ELSE Append(em, EditMetrics(cs, original, edited, now - st[1],
                                calculate_edit_distance(original, edited)))

\* Faulty variant of start_timer: the timer is started in every run.
start_timer_always(st, now) == <<now>>

\* "if st.session_state.start_time is None: start_time = time.time()"
start_timer(st, now) == IF st = None THEN <<now>> ELSE st

\* a user event: what was done, and with which text or segment
UserEvent(op, arg) == [op |-> op, arg |-> arg]
NoEvent == UserEvent("none", 0)

\* st.selectbox(index=cs, key='segment_select'): the option picked by the
\* user if the selector on screen is this widget (it was made with the same
\* index), and else the option at index.
selectbox(cs, ev) ==
    IF ev.op = "select" /\ shown = <<cs>> THEN ev.arg ELSE cs

\* st.text_area(value=segs[idx], key="edit_area"): the text in the edit area
\* on screen if that is this widget (it was made with the same value), and
\* else value.
text_area(segs, idx, ev) ==
    IF shown # None /\ segs[shown[1] + 1] = segs[idx + 1]
    THEN IF ev.op = "type" THEN ev.arg ELSE edit_area
    ELSE segs[idx + 1]

(***************************************************************************)
(* Page runs.  An action is one user event and the page runs it causes:    *)
(* the run that handles it and, after st.rerun(), the run that follows.    *)
(***************************************************************************)
\* the session state and the screen at the end of a run
RunEnd(cs, st, em, sh, area, res, exc) ==
    [current_segment |-> cs, start_time |-> st, edit_metrics |-> em,
     shown |-> sh, edit_area |-> area, results |-> res, exception |-> exc]

NoException == ""

\* One run of main() for the user event ev at time now, from current_segment
\* = cs, start_time = st and edit_metrics = em.
RECURSIVE main(_, _, _, _, _, _)
main(segs, ev, cs, st, em, now) ==
    IF segs = <<>>
    THEN RunEnd(cs, st, em, None, None, None, NoException)
    ELSE IF variant = Tool /\ EditingComplete(segs, cs)
    THEN RunEnd(cs, st, em, None, None, display_results(em), NoException)
    ELSE IF SelectboxFails(segs, cs)
    THEN RunEnd(cs, st, em, None, None, None, "StreamlitAPIException")
    ELSE
      LET segment_idx == selectbox(cs, ev)
          current_text == segs[segment_idx + 1]
          timer == start_timer(st, now)
          edited_text == text_area(segs, segment_idx, ev)
          saved == save_metrics(em, segment_idx, timer, current_text,
                                edited_text, now)
      IN  IF ev.op = "previous"
          THEN main(segs, NoEvent, segment_idx - 1, None, saved, now)
          ELSE IF ev.op = "next" /\ variant = Tool
          THEN main(segs, NoEvent, segment_idx + 1, None, saved, now)
          ELSE IF ev.op = "next"
          THEN \* src/app.py: no st.rerun(); the run goes on to the results
               \* and to the statistics panel, which reads the cleared timer
               RunEnd(segment_idx + 1, None, saved, <<segment_idx>>,
                      edited_text,
                      IF segment_idx + 1 >= Len(segs)
                      THEN display_results(saved) ELSE None,
                      IF edited_text # current_text
                      THEN "TypeError" ELSE NoException)
          ELSE RunEnd(segment_idx, timer, em, <<segment_idx>>, edited_text,
                      None, NoException)

\* the session state and the screen after the run that ended as r
Apply(r, now) ==
    /\ current_segment' = r.current_segment
    /\ start_time' = r.start_time
    /\ edit_metrics' = r.edit_metrics
    /\ shown' = r.shown
    /\ edit_area' = r.edit_area
    /\ results' = r.results
    /\ exception' = r.exception
    /\ clock' = now

Event(op, accepted) == [op |-> op, accepted |-> accepted]

Init ==
    /\ variant \in {Tool, Root}
    /\ uploaded_file = None
    /\ loads = 0
    /\ segments = <<>>
    /\ current_segment = 0
    /\ edit_metrics = <<>>
    /\ start_time = None
    /\ shown = None
    /\ edit_area = None
    /\ exception = NoException
    /\ clock = 0
    /\ results = None
    /\ lastEvent = None
    /\ transitions = 0
    /\ user_progress = None
    /\ reference_upload = None
    /\ evalView = None
    /\ scorerCalls = {}
    /\ dOriginal = <<>>
    /\ dEdited = <<>>
    /\ dCounts = None
    /\ dHtml = None

\* "if uploaded_file and len(st.session_state.segments) == 0": the run loads
\* the file and ends in st.rerun()
LoadsAndReruns(file, segs) == file # None /\ segs = <<>>

\* load: the operator puts a file into the uploader; the run loads it and
\* calls st.rerun(), and the run that follows shows the editor if there are
\* segments
Upload ==
    /\ uploaded_file = None
    /\ segments = <<>>
    /\ \E file \in CorpusFiles :
          /\ uploaded_file' = file
          /\ LoadsAndReruns(file, segments)
          /\ segments' = load_segments(file)
          /\ loads' = 1
          /\ lastEvent' = Event("load", segments' # <<>>)
          /\ Apply(main(segments', NoEvent, current_segment, start_time,
                        edit_metrics, clock), clock)
    /\ UNCHANGED <<variant, transitions, evalVars, diffVars>>

\* the run started by st.rerun() while the file is in the uploader and no
\* segment is loaded: it loads the file again and calls st.rerun() again
Reload ==
    /\ LoadsAndReruns(uploaded_file, segments)
    /\ loads < MaxLoads
    /\ segments' = load_segments(uploaded_file)
    /\ loads' = loads + 1
    /\ Apply(main(segments', NoEvent, current_segment, start_time,
                  edit_metrics, clock), clock)
    /\ UNCHANGED <<variant, uploaded_file, lastEvent, transitions, evalVars,
                   diffVars>>

\* the operator takes the file out of the uploader; with segments loaded the
\* uploader is no longer read
RemoveFile ==
    /\ LoadsAndReruns(uploaded_file, segments)
    /\ uploaded_file' = None
    /\ loads' = 0
    /\ lastEvent' = Event("remove", TRUE)
    /\ UNCHANGED <<variant, segments, current_segment, edit_metrics,
                   start_time, shown, edit_area, exception, clock, results,
                   transitions, evalVars, diffVars>>

\* the operator changes the text of the edit area
TypeEdit ==
    /\ shown # None
    /\ \E t \in EditTexts \cup {segments[shown[1] + 1]}, d \in Durations :
          /\ t # edit_area
          /\ clock + d <= MaxSeconds * 1000
          /\ Apply(main(segments, UserEvent("type", t), current_segment,
                        start_time, edit_metrics, clock + d), clock + d)
    /\ lastEvent' = Event("type", TRUE)
    /\ UNCHANGED <<variant, uploadVars, segments, transitions, evalVars,
                   diffVars>>

\* the operator makes the page run again without changing a widget
Rerun ==
    /\ shown # None
    /\ \E d \in Durations :
          /\ clock + d <= MaxSeconds * 1000
          /\ Apply(main(segments, UserEvent("rerun", 0), current_segment,
                        start_time, edit_metrics, clock + d), clock + d)
    /\ lastEvent' = Event("rerun", TRUE)
    /\ UNCHANGED <<variant, uploadVars, segments, transitions, evalVars,
                   diffVars>>

\* the operator reloads the page in the browser: a new session, in which
\* init_session_state finds none of its keys and no widget has a value
ReloadPage ==
    /\ segments # <<>>
    /\ user_progress = None
    /\ uploaded_file' = None
    /\ loads' = 0
    /\ segments' = <<>>
    /\ current_segment' = 0
    /\ edit_metrics' = <<>>
    /\ start_time' = None
    /\ shown' = None
    /\ edit_area' = None
    /\ exception' = NoException
    /\ results' = None
    /\ transitions' = 0
    /\ lastEvent' = Event("reload", TRUE)
    /\ UNCHANGED <<variant, clock, evalVars, diffVars>>

\* jump: the operator picks another segment in the segment selector
SelectSegment ==
    /\ shown # None
    /\ \E target \in 0..(Len(segments) - 1), d \in Durations :
          /\ target # shown[1]
          /\ clock + d <= MaxSeconds * 1000
          /\ LET r == main(segments, UserEvent("select", target),
                           current_segment, start_time, edit_metrics, clock + d)
                 jumped == r.current_segment = target
                              /\ current_segment # target
             IN  /\ Apply(r, clock + d)
                 /\ lastEvent' = Event("jump", jumped)
                 /\ transitions' = IF jumped THEN transitions + 1
                                   ELSE transitions
    /\ UNCHANGED <<variant, uploadVars, segments, evalVars, diffVars>>

\* retreat: the operator presses Previous; a disabled button does nothing
PressPrevious ==
    /\ shown # None
    /\ IF PreviousDisabled(shown[1])
       THEN /\ lastEvent' = Event("retreat", FALSE)
            /\ UNCHANGED <<current_segment, edit_metrics, start_time, shown,
                           edit_area, exception, clock, results, transitions>>
       ELSE /\ Len(edit_metrics) < MaxRecords
            /\ \E d \in Durations :
                  /\ clock + d <= MaxSeconds * 1000
                  /\ LET r == main(segments, UserEvent("previous", 0),
                                   current_segment, start_time, edit_metrics,
                                   clock + d)
                         accepted == Len(r.edit_metrics) > Len(edit_metrics)
                     IN  /\ Apply(r, clock + d)
                         /\ lastEvent' = Event("retreat", accepted)
                         /\ transitions' = IF accepted THEN transitions + 1
                                           ELSE transitions
    /\ UNCHANGED <<variant, uploadVars, segments, evalVars, diffVars>>

\* advance: the operator presses Next (Finish on the last segment); a page
\* without the editor has no such button
PressNext ==
    /\ segments # <<>>
    /\ IF shown = None
       THEN /\ lastEvent' = Event("advance", FALSE)
            /\ UNCHANGED <<current_segment, edit_metrics, start_time, shown,
                           edit_area, exception, clock, results, transitions>>
       ELSE /\ Len(edit_metrics) < MaxRecords
            /\ \E d \in Durations :
                  /\ clock + d <= MaxSeconds * 1000
                  /\ LET r == main(segments, UserEvent("next", 0),
                                   current_segment, start_time, edit_metrics,
                                   clock + d)
                         accepted == Len(r.edit_metrics) > Len(edit_metrics)
                     IN  /\ Apply(r, clock + d)
                         /\ lastEvent' = Event("advance", accepted)
                         /\ transitions' = IF accepted THEN transitions + 1
                                           ELSE transitions
    /\ UNCHANGED <<variant, uploadVars, segments, evalVars, diffVars>>

(***************************************************************************)
(* The document store and the evaluation page                              *)
(***************************************************************************)
\* The session bundle handed to the persistence store once the session is
\* complete: the ordered records, as documents.
SessionBundle == edit_metrics

\* the finished session is upserted into the user's document
Persist ==
    /\ segments # <<>>
    /\ EditingComplete(segments, current_segment)
    /\ user_progress # SessionBundle
    /\ user_progress' = SessionBundle
    /\ UNCHANGED <<navVars, reference_upload, evalView, scorerCalls, diffVars>>

\* sorted(doc['metrics'], key=lambda x: x['segment_id']), a stable sort:
\* the k-th element is the one with k - 1 elements before it in the order
\* (segment_id, position).
SortedBySegmentId(metrics) ==
    LET Before(x, y) ==
            \/ metrics[x].segment_id < metrics[y].segment_id
            \/ metrics[x].segment_id = metrics[y].segment_id /\ x < y
        At(k) == CHOOSE x \in 1..Len(metrics) :
                    Cardinality({y \in 1..Len(metrics) : Before(y, x)}) = k - 1
    IN  [k \in 1..Len(metrics) |-> metrics[At(k)]]

get_post_edited_translations(doc) ==
    IF doc # None
    THEN LET metrics == SortedBySegmentId(doc)
         IN  [k \in 1..Len(metrics) |-> metrics[k].edited]
    ELSE <<>>

\* process_file of a .txt upload: the column 'reference'
process_file(content) == StrippedLines(content)

\* Faulty variant of LengthsDiffer: only too few references are refused.
LengthsDifferOneSided(references, post_edited) == Len(references) < Len(post_edited)

\* "Ensure we have matching number of translations"
LengthsDiffer(references, post_edited) == Len(references) # Len(post_edited)

\* what a run shows: the st.error message (NoError: none) and whether the
\* run called the scorer and showed its scores
NoError == ""

View(error, scored) == [error |-> error, scored |-> scored]

\* One run of the evaluation page's main() with the reference file given
\* (None: nothing uploaded yet); clicked says that this run was caused by
\* a press of "Calculate Metrics".
EvalRun(reference_file, clicked) ==
    IF user_progress = None
    THEN /\ evalView' = View("No users found", FALSE)
         /\ UNCHANGED scorerCalls
    ELSE IF reference_file = None
    THEN /\ evalView' = View(NoError, FALSE)
         /\ UNCHANGED scorerCalls
    ELSE LET references == process_file(reference_file)
             post_edited == get_post_edited_translations(user_progress)
         IN  IF post_edited = <<>>
             THEN /\ evalView' = View("No post-edited translations found", FALSE)
                  /\ UNCHANGED scorerCalls
             ELSE IF LengthsDiffer(references, post_edited)
             THEN /\ evalView' = View("Number of reference translations does not match", FALSE)
                  /\ UNCHANGED scorerCalls
             ELSE IF clicked
             THEN /\ evalView' = View(NoError, TRUE)
                  /\ scorerCalls' = scorerCalls \cup
                        {[references |-> references, hypotheses |-> post_edited]}
             ELSE /\ evalView' = View(NoError, FALSE)
                  /\ UNCHANGED scorerCalls

\* the manager opens the evaluation page
EvalOpen ==
    /\ IF evalView = None THEN TRUE
       ELSE evalView.error = "No users found" /\ user_progress # None
    /\ EvalRun(reference_upload, FALSE)
    /\ UNCHANGED <<navVars, user_progress, reference_upload, diffVars>>

\* the file uploader is shown once a user is found
UploaderShown == evalView # None /\ evalView.error # "No users found"

\* the manager uploads a reference file
EvalUpload ==
    /\ UploaderShown
    /\ \E file \in ReferenceFiles :
          /\ file # reference_upload
          /\ reference_upload' = file
          /\ EvalRun(file, FALSE)
    /\ UNCHANGED <<navVars, user_progress, diffVars>>

\* the button is shown by a run that got past every check
ButtonShown ==
    /\ evalView # None
    /\ reference_upload # None
    /\ evalView.error = NoError

\* the manager presses "Calculate Metrics"
EvalClick ==
    /\ ButtonShown
    /\ ~evalView.scored
    /\ EvalRun(reference_upload, TRUE)
    /\ UNCHANGED <<navVars, user_progress, reference_upload, diffVars>>

(***************************************************************************)
(* The manager dashboard: the statistics of one user's metrics             *)
(***************************************************************************)
\* collection.find(): the documents of the store, one per user; the user's
\* document has no metrics before a session bundle is stored in it
get_all_users == <<user_progress>>

\* user.get('metrics', [])
Metrics(user) == IF user = None THEN <<>> ELSE user

\* total / count as Python computes it (times in whole milliseconds)
Division(total, count) ==
    IF count = 0
    THEN [error |-> "ZeroDivisionError", value |-> 0]
    ELSE [error |-> NoError, value |-> total \div count]

\* Faulty variant of HasSegments: the average is computed without the guard.
HasSegmentsUnguarded(total_segments) == TRUE

\* "... if total_segments > 0 else 0"
HasSegments(total_segments) == total_segments > 0

RECURSIVE SumOverUsers(_, _)
SumOverUsers(users_data, f) ==
    IF users_data = <<>> THEN 0
    ELSE (IF f = "segments" THEN Len(Metrics(users_data[1]))
          ELSE SumField(Metrics(users_data[1]), f))
         + SumOverUsers(Tail(users_data), f)

\* the "Project Overview" metrics
project_overview(users_data) ==
    LET total_segments == SumOverUsers(users_data, "segments")
        total_time == SumOverUsers(users_data, "edit_time")
    IN  [total_users |-> Len(users_data),
         total_segments |-> total_segments,
         total_time |-> total_time,
         avg_time_per_segment |->
             IF HasSegments(total_segments)
             THEN Division(total_time, total_segments)
             ELSE [error |-> NoError, value |-> 0]]

\* user_stats of a user with metrics (users without metrics are skipped)
user_stats(metrics) ==
    [segments |-> Len(metrics),
     total_time |-> SumField(metrics, "edit_time"),
     avg_time |-> Division(SumField(metrics, "edit_time"), Len(metrics)),
     total_edits |-> SumField(metrics, "insertions")
                     + SumField(metrics, "deletions")]

\* the list user_stats of the "User Performance Analysis"
RECURSIVE user_stats_list(_)
user_stats_list(users_data) ==
    IF users_data = <<>> THEN <<>>
    ELSE (IF Metrics(users_data[1]) = <<>> THEN <<>>
          ELSE <<user_stats(Metrics(users_data[1]))>>)
         \o user_stats_list(Tail(users_data))

Next ==
    \/ Upload
    \/ Reload
    \/ RemoveFile
    \/ TypeEdit
    \/ Rerun
    \/ ReloadPage
    \/ SelectSegment
    \/ PressPrevious
    \/ PressNext
    \/ Persist
    \/ EvalOpen
    \/ EvalUpload
    \/ EvalClick

Spec == Init /\ [][Next]_vars

\* the sessions of src/src/app.py alone
ToolInit == Init /\ variant = Tool

ToolSpec == ToolInit /\ [][Next]_vars

(***************************************************************************)
(* DiffSpec: calculate_edit_distance applied to every pair of texts of at  *)
(* most MaxLen characters                                                  *)
(***************************************************************************)
Alphabet == {"a", "b", " "}

TextsUpTo(n) == UNION {[1..k -> Alphabet] : k \in 0..n}

DiffInit ==
    /\ dOriginal \in TextsUpTo(MaxLen)
    /\ dEdited \in TextsUpTo(MaxLen)
    /\ dCounts = None
    /\ dHtml = None
    /\ variant = Tool
    /\ uploaded_file = None
    /\ loads = 0
    /\ segments = <<>>
    /\ current_segment = 0
    /\ edit_metrics = <<>>
    /\ start_time = None
    /\ shown = None
    /\ edit_area = None
    /\ exception = NoException
    /\ clock = 0
    /\ results = None
    /\ lastEvent = None
    /\ transitions = 0
    /\ user_progress = None
    /\ reference_upload = None
    /\ evalView = None
    /\ scorerCalls = {}

\* the call calculate_edit_distance(dOriginal, dEdited)
DiffCompute ==
    /\ dCounts = None
    /\ dCounts' = calculate_edit_distance(dOriginal, dEdited)
    /\ dHtml' = highlight_differences(dOriginal, dEdited)
    /\ UNCHANGED <<dOriginal, dEdited, navVars, evalVars>>

\* the operator types one more character, or deletes the last one: the next
\* call gets another pair
DiffRetype ==
    /\ dCounts # None
    /\ \/ \E c \in Alphabet :
             /\ Len(dEdited) < MaxLen
             /\ dEdited' = Append(dEdited, c)
       \/ /\ dEdited # <<>>
          /\ dEdited' = SubSeq(dEdited, 1, Len(dEdited) - 1)
    /\ dCounts' = None
    /\ dHtml' = None
    /\ UNCHANGED <<dOriginal, navVars, evalVars>>

DiffNext == DiffCompute \/ DiffRetype

DiffSpec == DiffInit /\ [][DiffNext]_vars

(***************************************************************************)
(* Properties                                                              *)
(***************************************************************************)
\* the sum of field f over the records of a sequence
Total(seq, f) ==
    LET S[n \in 0..Len(seq)] == IF n = 0 THEN 0 ELSE S[n - 1] + seq[n][f]
    IN  S[Len(seq)]

\* the number of whitespace-separated tokens of a text: the positions where
\* a token starts
TokenCount(s) ==
    Cardinality({i \in 1..Len(s) :
                    ~IsSpace(s[i]) /\ (i = 1 \/ IsSpace(s[i - 1]))})

\* C1: after load, the number of edit records equals the number of
\* advance, retreat and jump transitions issued so far.
C1_OneRecordPerTransition ==
    segments # <<>> => Len(edit_metrics) = transitions

\* C2: an advance issued at current index = N (Complete) and a retreat
\* issued at current index = 0 are rejected, and every rejected advance or
\* retreat leaves the records, the current index and the segment timer as
\* they were.
C2_RejectedTransitionChangesNothing ==
    [][/\ (lastEvent' # lastEvent \/ clock' # clock) /\ lastEvent' # None
            => /\ (lastEvent'.op = "advance"
                      /\ current_segment = Len(segments))
                    => ~lastEvent'.accepted
               /\ (lastEvent'.op = "retreat" /\ current_segment = 0)
                    => ~lastEvent'.accepted
       /\ (/\ lastEvent' # None
           /\ lastEvent'.op \in {"advance", "retreat"}
           /\ ~lastEvent'.accepted)
            => UNCHANGED <<edit_metrics, current_segment, start_time>>]_vars

\* a retreat was rejected at index 0 with records already made and the
\* timer running
C2_Witness ==
    /\ lastEvent = Event("retreat", FALSE)
    /\ current_segment = 0
    /\ edit_metrics # <<>>
    /\ start_time # None

\* the run of the scenario: segments "The cat sat." and "It was sunny.",
\* segment 0 edited to "The cat sat on the mat." and left by Next after
\* 5.0 s, segment 1 left unchanged by Finish after 2.0 s
ScenarioRun ==
    /\ segments = <<TheCatSat, ItWasSunny>>
    /\ results # None
    /\ Len(edit_metrics) = 2
    /\ edit_metrics[1].segment_id = 0
    /\ edit_metrics[1].original = TheCatSat
    /\ edit_metrics[1].edited = TheCatSatOnTheMat
    /\ edit_metrics[1].edit_time = 5000
    /\ edit_metrics[2].segment_id = 1
    /\ edit_metrics[2].original = ItWasSunny
    /\ edit_metrics[2].edited = ItWasSunny
    /\ edit_metrics[2].edit_time = 2000

\* C3 as stated: the scenario ends with 3 insertions and 0 deletions in
\* record 0, record 1 = (2.0 s, 0, 0), 2 segments and 7.0 s in the summary.
C3_ScenarioAsStated ==
    ScenarioRun =>
        /\ edit_metrics[1].insertions = 3
        /\ edit_metrics[1].deletions = 0
        /\ edit_metrics[2].insertions = 0
        /\ edit_metrics[2].deletions = 0
        /\ results.total_segments = 2
        /\ results.total_time = 7000

\* C3 amended: the scenario ends with 4 insertions ("sat", "on", "the",
\* "mat.") and 1 deletion ("sat.") in record 0, record 1 = (2.0 s, 0, 0),
\* 2 segments and 7.0 s in the summary.
C3_Scenario ==
    ScenarioRun =>
        /\ edit_metrics[1].insertions = 4
        /\ edit_metrics[1].deletions = 1
        /\ edit_metrics[2].insertions = 0
        /\ edit_metrics[2].deletions = 0
        /\ results.total_segments = 2
        /\ results.total_time = 7000
        /\ results.total_time_shown = 70

\* the scenario has been run to its end
C3_Witness == ScenarioRun /\ lastEvent = Event("advance", TRUE)

\* C4: a pair with original = edited has 0 insertions and 0 deletions.
C4_EqualTextsNoEdits ==
    (dCounts # None /\ dOriginal = dEdited)
        => dCounts = [insertions |-> 0, deletions |-> 0]

\* the counts of an equal pair of two tokens have been computed
C4_Witness ==
    /\ dCounts # None
    /\ dOriginal = dEdited
    /\ TokenCount(dOriginal) >= 2

\* C5: with edited = "" and original not empty, deletions is the number of
\* tokens of original and insertions is 0; with original = "" and edited
\* not empty, insertions is the number of tokens of edited and deletions is 0.
C5_EmptySideCounts ==
    /\ (dCounts # None /\ dEdited = <<>> /\ dOriginal # <<>>)
          => /\ dCounts.deletions = TokenCount(dOriginal)
             /\ dCounts.insertions = 0
    /\ (dCounts # None /\ dOriginal = <<>> /\ dEdited # <<>>)
          => /\ dCounts.insertions = TokenCount(dEdited)
             /\ dCounts.deletions = 0

\* the counts of an empty edited text against two tokens have been computed
C5_Witness ==
    /\ dCounts # None
    /\ dEdited = <<>>
    /\ TokenCount(dOriginal) = 2

\* C6: the summary counts every record (revisits included) and sums the
\* edit times, the insertions and the deletions of all records; the manager
\* dashboard counts and sums the stored records the same way.
C6_SummaryOverAllRecords ==
    /\ results # None
          => /\ results.total_segments = Len(edit_metrics)
             /\ results.total_time = Total(edit_metrics, "edit_time")
             /\ results.total_insertions = Total(edit_metrics, "insertions")
             /\ results.total_deletions = Total(edit_metrics, "deletions")
    /\ user_progress # None
          => /\ user_stats(user_progress).segments = Len(edit_metrics)
             /\ user_stats(user_progress).total_time
                   = Total(edit_metrics, "edit_time")
             /\ user_stats(user_progress).total_edits
                   = Total(edit_metrics, "insertions")
                     + Total(edit_metrics, "deletions")

\* a finished session with a segment recorded twice
C6_Witness ==
    /\ results # None
    /\ \E j, k \in 1..Len(edit_metrics) :
          j < k /\ edit_metrics[j].segment_id = edit_metrics[k].segment_id

\* the cell of column c in the k-th data line of a CSV export
CsvCell(csv, k, c) ==
    LET col == CHOOSE i \in 1..Len(csv[1]) : csv[1][i] = c
    IN  csv[k + 1][col]

\* C7: the CSV export has one row per record, in record order, and carries
\* the columns segment_id, edit_time, insertions, deletions, original and
\* edited, each cell holding the record's field.
C7_CsvAsStated ==
    results # None
        => /\ Len(results.csv) = Len(edit_metrics) + 1
           /\ Range(results.csv[1]) = {"segment_id", "edit_time", "insertions",
                                       "deletions", "original", "edited"}
           /\ \A k \in 1..Len(edit_metrics) :
                 \A c \in Range(results.csv[1]) :
                    CsvCell(results.csv, k, c) = edit_metrics[k][c]

\* the value of key in a parsed JSON object
JsonGet(object, key) ==
    LET i == CHOOSE i \in 1..Len(object) : object[i][1] = key
    IN  object[i][2]

\* C8: the JSON export holds one object per record, in record order, and
\* gives back each record's segment_id, insertions and deletions, and its
\* edit time to 2 decimal places.
C8_JsonRoundTrip ==
    results # None
        => /\ Len(results.json) = Len(edit_metrics)
           /\ \A k \in 1..Len(edit_metrics) :
                 LET object == results.json[k]
                     seconds == JsonGet(object, "edit_time_seconds")
                 IN  /\ JsonGet(object, "segment_id") = edit_metrics[k].segment_id
                     /\ JsonGet(object, "insertions") = edit_metrics[k].insertions
                     /\ JsonGet(object, "deletions") = edit_metrics[k].deletions
                     /\ seconds % 10 = 0
                     /\ seconds - edit_metrics[k].edit_time \in -5..5

\* an export of two records, one with an edit time that is rounded
C8_Witness ==
    /\ results # None
    /\ Len(edit_metrics) >= 2
    /\ \E k \in 1..Len(edit_metrics) : edit_metrics[k].edit_time % 10 # 0

\* C9: the scorer is only called with as many hypotheses as references, and
\* a run that finds the two numbers different shows an error and does not
\* score.
C9_MismatchIsAnError ==
    /\ \A call \in scorerCalls : Len(call.references) = Len(call.hypotheses)
    /\ (/\ evalView # None
        /\ reference_upload # None
        /\ user_progress # None
        /\ Len(process_file(reference_upload)) # Len(user_progress))
          => evalView.error # NoError /\ ~evalView.scored

\* a mismatch was reported after a scoring with another reference file
C9_Witness ==
    /\ evalView # None
    /\ evalView.error = "Number of reference translations does not match"
    /\ scorerCalls # {}

\* C10: whenever the scorer is called with one reference per segment, the
\* k-th hypothesis is a post-edited text recorded for segment k - 1.
C10_HypothesesAligned ==
    \A call \in scorerCalls :
        Len(call.references) = Len(segments)
            => \A k \in 1..Len(call.hypotheses) :
                  \E m \in 1..Len(user_progress) :
                      /\ user_progress[m].segment_id = k - 1
                      /\ user_progress[m].edited = call.hypotheses[k]

\* C11: the upload of a file without a non-blank line is reported as an
\* error and is not retried: load_segments is called once for it, and the
\* navigator stays Idle with no records and current index 0.
C11_EmptyCorpusIsAnError ==
    (uploaded_file # None /\ segments = <<>>)
        => /\ exception # NoException
           /\ loads = 1
           /\ edit_metrics = <<>>
           /\ current_segment = 0
           /\ shown = None

\* C12: an average edit time is only computed as total_time / count with
\* count > 0: the results summary is only shown with at least one record,
\* the manager's overview gives 0 for a store without records and the
\* quotient otherwise, and its user statistics skip users without records.
C12_AverageOnlyOverRecords ==
    /\ results # None
          => /\ edit_metrics # <<>>
             /\ results.total_segments > 0
             /\ results.average_time_shown # None
    /\ LET overview == project_overview(get_all_users)
       IN  /\ overview.avg_time_per_segment.error = NoError
           /\ overview.total_segments = 0
                 => overview.avg_time_per_segment.value = 0
           /\ overview.total_segments > 0
                 => overview.avg_time_per_segment.value
                       = Total(Metrics(user_progress), "edit_time")
                            \div Len(Metrics(user_progress))
    /\ LET stats == user_stats_list(get_all_users)
       IN  /\ Len(stats) = IF Metrics(user_progress) = <<>> THEN 0 ELSE 1
           /\ \A k \in 1..Len(stats) :
                 /\ stats[k].segments > 0
                 /\ stats[k].avg_time.error = NoError

\* the summary of a finished session is shown while the store has no record
C12_Witness ==
    /\ results # None
    /\ user_progress = None
    /\ project_overview(get_all_users).total_segments = 0

\* C13: an accepted advance from index i appends one record, sets the
\* current index to i + 1 and restarts the timer for the segment then shown;
\* the results are shown, and the editor is not, exactly when i + 1 = N.
C13_AdvanceReachesComplete ==
    [][(lastEvent' = Event("advance", TRUE) /\ clock' # clock)
          => /\ Len(edit_metrics') = Len(edit_metrics) + 1
             /\ current_segment' = current_segment + 1
             /\ (current_segment + 1 = Len(segments)) <=> (results' # None)
             /\ (results' # None) <=> (shown' = None)
             /\ current_segment + 1 < Len(segments)
                   => /\ shown' = <<current_segment + 1>>
                      /\ start_time' = <<clock'>>]_vars

\* the record appended by the step, if the step appended one
Appended == edit_metrics'[Len(edit_metrics')]

C15_EveryTransitionRestartsTimer ==
    [][/\ (shown' # shown /\ shown' # None) => start_time' = <<clock'>>
       /\ (/\ clock' # clock
           /\ Len(edit_metrics') = Len(edit_metrics) + 1
           /\ start_time # None)
             => Appended.edit_time = clock' - start_time[1]]_vars

\* C16: in every reachable state 0 <= current index <= N, and an editor is
\* only drawn (the segment text only read) for an index below N.
C16_IndexInRange ==
    /\ current_segment \in 0..Len(segments)
    /\ shown # None => shown[1] \in 0..(Len(segments) - 1)
    /\ shown # None => edit_area # None

\* src/app.py at index N: an event after Finish ended in the selector's
\* exception, with the index still N and no editor drawn
C16_Witness ==
    /\ segments # <<>>
    /\ current_segment = Len(segments)
    /\ exception = "StreamlitAPIException"
    /\ shown = None

\* a is a prefix of b
IsPrefix(a, b) == Len(a) <= Len(b) /\ SubSeq(b, 1, Len(a)) = a

\* C17: within a session the records are an append-only history: every
\* step of the session keeps the records it found, in place, and an accepted
\* advance or retreat from a segment that already has a record appends one
\* more record for it.
C17_RecordsAppendOnly ==
    [][/\ lastEvent' # Event("reload", TRUE)
             => IsPrefix(edit_metrics, edit_metrics')
       /\ (/\ clock' # clock
           /\ lastEvent' \in {Event("advance", TRUE), Event("retreat", TRUE)})
             => /\ Len(edit_metrics') = Len(edit_metrics) + 1
                /\ \A k \in 1..Len(edit_metrics) :
                      edit_metrics'[k] = edit_metrics[k]]_vars

\* a transition has added a second record for a segment that had one
C17_Witness ==
    /\ lastEvent # None
    /\ lastEvent.accepted
    /\ lastEvent.op \in {"advance", "retreat"}
    /\ Len(edit_metrics) >= 2
    /\ \E k \in 1..(Len(edit_metrics) - 1) :
          edit_metrics[k].segment_id
             = edit_metrics[Len(edit_metrics)].segment_id

\* the step is a page reload of a session that has segments
ReloadStep == lastEvent' = Event("reload", TRUE) /\ segments # <<>>

\* the step is a run for typed text or a run without a widget change
TypingOrRerunStep ==
    /\ clock' # clock
    /\ lastEvent'.op \in {"type", "rerun"}

\* C18 as stated: typing, re-rendering and reloading the page create no
\* record and change neither the records, nor the current index, nor a
\* running timer.
C18_AsStated ==
    [][(TypingOrRerunStep \/ ReloadStep)
          => /\ edit_metrics' = edit_metrics
             /\ current_segment' = current_segment
             /\ start_time # None => start_time' = start_time]_vars

\* C18 amended: typing and re-rendering create no record and change neither
\* the records, nor the current index, nor a running timer; reloading the
\* page creates no record either, but starts a new session without records,
\* at index 0, with no timer running.
C18_OnlyTransitionsRecord ==
    [][/\ TypingOrRerunStep
          => /\ edit_metrics' = edit_metrics
             /\ current_segment' = current_segment
             /\ start_time # None => start_time' = start_time
       /\ ReloadStep
          => /\ edit_metrics' = <<>>
             /\ current_segment' = 0
             /\ start_time' = None]_vars

\* text was typed for a segment whose timer had been running, in a session
\* that has a record
C18_Witness ==
    /\ lastEvent = Event("type", TRUE)
    /\ edit_metrics # <<>>
    /\ shown = <<current_segment>>
    /\ edit_area # segments[current_segment + 1]
    /\ start_time # None
    /\ start_time[1] < clock

\* the tokens of the spans of a rendering that have one of the styles
TokensStyled(html, styles) ==
    LET kept == SelectSeq(html, LAMBDA span : span.style \in styles)
    IN  [k \in 1..Len(kept) |-> kept[k].token]

\* C19: the rendering and the counts agree on every pair: there are
\* `insertions` spans styled as added, `deletions` spans styled as removed
\* and one unstyled span per unchanged token; the spans follow the diff
\* lines in order, so the unstyled and removed spans spell the original and
\* the unstyled and added spans spell the edited text; two empty texts give
\* no span.
C19_RenderingAgreesWithCounts ==
    dCounts # None
        => LET diff == compare(Split(dOriginal), Split(dEdited))
           IN  /\ Len(TokensStyled(dHtml, {Added})) = dCounts.insertions
               /\ Len(TokensStyled(dHtml, {Removed})) = dCounts.deletions
               /\ Len(TokensStyled(dHtml, {Unstyled}))
                     = TokenCount(dOriginal) - dCounts.deletions
               /\ Len(TokensStyled(dHtml, {Unstyled}))
                     = TokenCount(dEdited) - dCounts.insertions
               /\ Len(dHtml) = Len(diff)
               /\ \A k \in 1..Len(dHtml) :
                     /\ dHtml[k].token = diff[k].tok
                     /\ dHtml[k].style = Added <=> diff[k].tag = "+"
                     /\ dHtml[k].style = Removed <=> diff[k].tag = "-"
               /\ TokensStyled(dHtml, {Unstyled, Removed}) = Split(dOriginal)
               /\ TokensStyled(dHtml, {Unstyled, Added}) = Split(dEdited)
               /\ (dOriginal = <<>> /\ dEdited = <<>>) => dHtml = <<>>

\* a pair was rendered with an unchanged, a removed and an added token
C19_Witness ==
    /\ dCounts # None
    /\ dCounts.insertions >= 1
    /\ dCounts.deletions >= 1
    /\ dCounts.insertions # dCounts.deletions
    /\ TokensStyled(dHtml, {Unstyled}) # <<>>

\* C20: whenever now - start_time is computed, in save_metrics or in the
\* statistics panel, start_time is not None: no run ends in the TypeError of
\* time.time() - None, and a record's edit time is a time since a start.
C20_TimerSetWhenRead ==
    /\ exception # "TypeError"
    /\ \A k \in 1..Len(edit_metrics) : edit_metrics[k].edit_time \in 0..clock

\* the tokens of the diff lines that carry one of the tags, in order
TokensTagged(diff, tags) ==
    LET kept == SelectSeq(diff, LAMBDA line : line.tag \in tags)
    IN  [k \in 1..Len(kept) |-> kept[k].tok]

\* C21: token conservation: every token of original is tagged once, as
\* equal or delete, and every token of edited once, as equal or insert, so
\* insertions - deletions = tokens(edited) - tokens(original), deletions <=
\* tokens(original) and insertions <= tokens(edited); two different tokens
\* exchanged count as one deletion plus one insertion.
C21_TokenConservation ==
    dCounts # None
        => LET diff == compare(Split(dOriginal), Split(dEdited))
           IN  /\ TokensTagged(diff, {" ", "-"}) = Split(dOriginal)
               /\ TokensTagged(diff, {" ", "+"}) = Split(dEdited)
               /\ dCounts.insertions - dCounts.deletions
                     = TokenCount(dEdited) - TokenCount(dOriginal)
               /\ dCounts.deletions \in 0..TokenCount(dOriginal)
               /\ dCounts.insertions \in 0..TokenCount(dEdited)
               /\ (/\ Len(Split(dOriginal)) = 2
                   /\ Split(dOriginal)[1] # Split(dOriginal)[2]
                   /\ Split(dEdited)
                         = <<Split(dOriginal)[2], Split(dOriginal)[1]>>)
                     => dCounts = [insertions |-> 1, deletions |-> 1]

\* the counts of a pair whose two tokens changed places, one of them longer
\* than the other, have been computed
C21_Witness ==
    /\ dCounts # None
    /\ TokenCount(dOriginal) = 2
    /\ Split(dOriginal)[1] # Split(dOriginal)[2]
    /\ Split(dEdited) = <<Split(dOriginal)[2], Split(dOriginal)[1]>>
    /\ Len(Split(dOriginal)[1]) > Len(Split(dOriginal)[2])

====
